---- MODULE Spec2Model ----
(***************************************************************************)
(* A model of microwave.py: the MicrowaveMachine state machine engine, its *)
(* three states (IdleState, CookingState, PauseState) and the main         *)
(* program's driver loop.                                                  *)
(*                                                                         *)
(* Time: time.monotonic() is modelled by the integer variable now; the     *)
(* unit is the unit of cook_time (seconds), so the clock is quantised to   *)
(* whole seconds.  The clock advances between driver steps (Tick) and may  *)
(* advance inside one update() between two reads of the clock.             *)
(*                                                                         *)
(* Events are single characters, as get_event() produces them.             *)
(***************************************************************************)
EXTENDS Integers, Sequences, FiniteSets, TLC

\* ---------------------------------------------------------------- bounds

\* The clock stops advancing at MaxNow.
MaxNow == 4
\* IdleState.update accumulates digits only while the result is <= MaxCook ...
MaxCook == 12
\* ... and at most MaxDigits digits are accumulated per stay in IDLE.
MaxDigits == 3
\* The most the clock advances inside one update() call.
MaxDrift == 2

\* ------------------------------------------------------- program constants

TESTING == TRUE
EVENT_START == "S"
EVENT_PAUSE == "P"

\* Python's None (the current state before the first transition).
None == "None"

\* The three concrete State classes the main program instantiates.
Classes == {"IdleState", "CookingState", "PauseState"}

\* The characters of the literal "0123456789" tested in IdleState.update.
DigitChars == <<"0", "1", "2", "3", "4", "5", "6", "7", "8", "9">>

\* Keys the keyboard can deliver (a bounded alphabet: every digit, the three
\* commands in both cases, one unrecognised letter in both cases).
Keys == {"0", "1", "2", "3", "4", "5", "6", "7", "8", "9",
         "s", "S", "p", "P", "q", "Q", "x", "X"}

\* ---------------------------------------------------------------- state

VARIABLES
    state,      \* MicrowaveMachine.state: None or the class of the current state object
    states,     \* MicrowaveMachine.states: dictionary name -> state object (its class)
    event,      \* MicrowaveMachine.event
    cook_time,  \* MicrowaveMachine.cook_time
    stop_time,  \* MicrowaveMachine.stop_time: <<>> while the attribute does not exist, else <<t>>
    now,        \* the value time.monotonic() returns
    pc,         \* position of the caller (main program or API client)
    trace,      \* history: what the last step wrote to stdout and which calls it made, in order
    digits,     \* history: the digit events update() was given in IDLE since IDLE was entered
    heating     \* history: the last heating line on stdout was "Start heating"

vars == <<state, states, event, cook_time, stop_time, now, pc, trace, digits, heating>>

\* The machine object as one value.
Machine ==
    [state |-> state, states |-> states, event |-> event, cook_time |-> cook_time,
     stop_time |-> stop_time, trace |-> <<>>]

\* Whether the heater is reported on after the lines of trace tr, when it was h before.
RECURSIVE HeaterAfter(_, _)
HeaterAfter(h, tr) ==
    IF tr = <<>> THEN h
    ELSE HeaterAfter(CASE Head(tr) = <<"print", "Start heating">> -> TRUE
                       [] Head(tr) = <<"print", "Stop heating">> -> FALSE
                       [] OTHER -> h,
                     Tail(tr))

\* Store a machine value back into the machine's variables.
SetMachine(m) ==
    /\ heating' = HeaterAfter(heating, m.trace)
    /\ state' = m.state
    /\ states' = m.states
    /\ event' = m.event
    /\ cook_time' = m.cook_time
    /\ stop_time' = m.stop_time
    /\ trace' = m.trace

\* ------------------------------------------------------ support functions

\* print(s): one line on stdout.
print(m, s) == [m EXCEPT !.trace = Append(@, <<"print", s>>)]

\* log(s): print when TESTING.
log(m, s) == IF TESTING THEN print(m, s) ELSE m

\* A marker in the trace: a hook call, the state assignment, a raised exception, a sleep.
Mark(m, kind, what) == [m EXCEPT !.trace = Append(@, <<kind, what>>)]

\* str.upper() on one character of the key alphabet.
upper(c) ==
    CASE c = "s" -> "S"
      [] c = "p" -> "P"
      [] c = "q" -> "Q"
      [] c = "x" -> "X"
      [] OTHER -> c

\* event in "0123456789", for a one-character event.
InDigits(e) == \E i \in 1..Len(DigitChars) : DigitChars[i] = e

\* int(event), for a digit character.
int(e) == (CHOOSE i \in 1..Len(DigitChars) : DigitChars[i] = e) - 1

\* str(n) for a non-negative integer, as print(machine.cook_time) formats it.
RECURSIVE str(_)
str(n) == IF n < 10 THEN DigitChars[n + 1] ELSE str(n \div 10) \o DigitChars[(n % 10) + 1]

\* get_event(): "" when no key is pressed, else the key upper-cased (and logged).
get_event(m, kbhit, key) ==
    IF kbhit
    THEN LET ret == upper(key) IN [log(m, "Event " \o ret) EXCEPT !.event = ret]
    ELSE [m EXCEPT !.event = ""]

\* ---------------------------------------------------------------- states

\* The name property of each State class.
name(cls) ==
    CASE cls = "IdleState" -> "IDLE"
      [] cls = "PauseState" -> "Pause"
      [] cls = "CookingState" -> "COOKING"
      [] OTHER -> ""

\* Mutant: the reset of cook_time is missing.
IdleState_enter_no_reset(m) == m

IdleState_enter(m) == [m EXCEPT !.cook_time = 0]

\* Mutant: the cook time is divided by 10, as the comment in the source suggests.
CookingState_enter_tenth(m, t) ==
    [print(m, "Start heating") EXCEPT !.stop_time = <<t + (m.cook_time \div 10)>>]

CookingState_enter(m, t) ==
    [print(m, "Start heating") EXCEPT !.stop_time = <<t + m.cook_time>>]

\* Mutant: leaving COOKING reports nothing.
CookingState_exit_silent(m) == m

CookingState_exit(m) == print(m, "Stop heating")

PauseState_enter(m) == print(m, "Paused")

\* state.enter(machine), dispatched on the class; t is the clock CookingState.enter reads.
enter(cls, m, t) ==
    LET m1 == Mark(m, "enter", name(cls)) IN
    CASE cls = "IdleState" -> IdleState_enter(m1)
      [] cls = "CookingState" -> CookingState_enter(m1, t)
      [] cls = "PauseState" -> PauseState_enter(m1)
      [] OTHER -> m1

\* state.exit(machine), dispatched on the class.
exit(cls, m) ==
    LET m1 == Mark(m, "exit", name(cls)) IN
    CASE cls = "CookingState" -> CookingState_exit(m1)
      [] OTHER -> m1

\* ---------------------------------------------------------------- machine

\* MicrowaveMachine.add_state(state), for a state object of class cls.
add_state(m, cls) ==
    [m EXCEPT !.states = [n \in DOMAIN m.states \cup {name(cls)} |->
                             IF n = name(cls) THEN cls ELSE m.states[n]]]

\* Mutant: the lookup is states.get(state_name), so an unregistered name makes the
\* current state None before the call of its enter hook fails.
go_to_state_get(m, state_name, t) ==
    LET m0 == Mark(m, "go_to_state", state_name)
        m1 == IF m0.state # None
              THEN exit(m0.state, log(m0, "Exiting " \o name(m0.state)))
              ELSE m0
    IN  IF state_name \notin DOMAIN m1.states
        THEN Mark([m1 EXCEPT !.state = None], "raise", "AttributeError")
        ELSE LET m2 == Mark([m1 EXCEPT !.state = m1.states[state_name]],
                            "assign", state_name)
             IN  enter(m2.state, log(m2, "Entering " \o name(m2.state)), t)

\* Mutant: the new state is assigned and entered before the old state is exited.
go_to_state_enter_first(m, state_name, t) ==
    LET m0 == Mark(m, "go_to_state", state_name) IN
    IF state_name \notin DOMAIN m0.states
    THEN Mark(m0, "raise", "KeyError")
    ELSE LET m2 == Mark([m0 EXCEPT !.state = m0.states[state_name]],
                        "assign", state_name)
             m3 == enter(m2.state, log(m2, "Entering " \o name(m2.state)), t)
         IN  IF m.state # None
             THEN exit(m.state, log(m3, "Exiting " \o name(m.state)))
             ELSE m3

\* MicrowaveMachine.go_to_state(state_name); t is the clock an enter hook reads.
go_to_state(m, state_name, t) ==
    LET m0 == Mark(m, "go_to_state", state_name)
        m1 == IF m0.state # None
              THEN exit(m0.state, log(m0, "Exiting " \o name(m0.state)))
              ELSE m0
    IN  IF state_name \notin DOMAIN m1.states
        THEN Mark(m1, "raise", "KeyError")
        ELSE LET m2 == Mark([m1 EXCEPT !.state = m1.states[state_name]],
                            "assign", state_name)
             IN  enter(m2.state, log(m2, "Entering " \o name(m2.state)), t)

\* Mutant: the accumulation adds the digit without the decimal shift.
IdleState_update_no_shift(m, t) ==
    IF m.event = EVENT_START
    THEN go_to_state(m, "COOKING", t)
    ELSE IF m.event # "" /\ InDigits(m.event)
         THEN LET c == m.cook_time + int(m.event)
              IN  print([m EXCEPT !.cook_time = c], str(c))
         ELSE m

IdleState_update(m, t) ==
    IF m.event = EVENT_START
    THEN go_to_state(m, "COOKING", t)
    ELSE IF m.event # "" /\ InDigits(m.event)
         THEN LET c == (m.cook_time * 10) + int(m.event)
              IN  print([m EXCEPT !.cook_time = c], str(c))
         ELSE m

\* Mutant: the pause key toggles, so 'P' in Pause resumes the cooking too.
PauseState_update_toggle(m, t) ==
    IF m.event = EVENT_START \/ m.event = EVENT_PAUSE
    THEN go_to_state(m, "COOKING", t)
    ELSE IF m.event = "Q"
         THEN go_to_state(m, "IDLE", t)
         ELSE m

\* Mutant: every key but 'Q' resumes the cooking.
PauseState_update_any_key(m, t) ==
    IF m.event # "" /\ m.event # "Q"
    THEN go_to_state(m, "COOKING", t)
    ELSE IF m.event = "Q"
         THEN go_to_state(m, "IDLE", t)
         ELSE m

PauseState_update(m, t) ==
    IF m.event = EVENT_START
    THEN go_to_state(m, "COOKING", t)
    ELSE IF m.event = "Q"
         THEN go_to_state(m, "IDLE", t)
         ELSE m

\* Mutant: the deadline check is strict.
CookingState_update_strict(m, t1, t2) ==
    IF m.stop_time[1] < t1
    THEN go_to_state(m, "IDLE", t2)
    ELSE IF m.event = "Q"
         THEN go_to_state(print(m, "Cancel"), "IDLE", t2)
         ELSE IF m.event = EVENT_PAUSE
              THEN go_to_state([m EXCEPT !.cook_time = m.stop_time[1] - t2], "Pause", t2)
              ELSE Mark(print(m, "."), "sleep", "0.2")

\* Mutant: the pause branch does not store the remaining time.
CookingState_update_no_remaining(m, t1, t2) ==
    IF m.stop_time[1] <= t1
    THEN go_to_state(m, "IDLE", t2)
    ELSE IF m.event = "Q"
         THEN go_to_state(print(m, "Cancel"), "IDLE", t2)
         ELSE IF m.event = EVENT_PAUSE
              THEN go_to_state(m, "Pause", t2)
              ELSE Mark(print(m, "."), "sleep", "0.2")

\* Mutant: cancel while cooking pauses instead of going to IDLE.
CookingState_update_cancel_pauses(m, t1, t2) ==
    IF m.stop_time[1] <= t1
    THEN go_to_state(m, "IDLE", t2)
    ELSE IF m.event = "Q" \/ m.event = EVENT_PAUSE
         THEN go_to_state([m EXCEPT !.cook_time = m.stop_time[1] - t2], "Pause", t2)
         ELSE Mark(print(m, "."), "sleep", "0.2")

\* Mutant: the events are checked before the deadline.
CookingState_update_events_first(m, t1, t2) ==
    IF m.event = "Q"
    THEN go_to_state(print(m, "Cancel"), "IDLE", t2)
    ELSE IF m.event = EVENT_PAUSE
         THEN go_to_state([m EXCEPT !.cook_time = m.stop_time[1] - t2], "Pause", t2)
         ELSE IF m.stop_time[1] <= t1
              THEN go_to_state(m, "IDLE", t2)
              ELSE Mark(print(m, "."), "sleep", "0.2")

\* Mutant: the cooking ends one second early.
CookingState_update_early(m, t1, t2) ==
    IF m.stop_time[1] - 1 <= t1
    THEN go_to_state(m, "IDLE", t2)
    ELSE IF m.event = "Q"
         THEN go_to_state(print(m, "Cancel"), "IDLE", t2)
         ELSE IF m.event = EVENT_PAUSE
              THEN go_to_state([m EXCEPT !.cook_time = m.stop_time[1] - t2], "Pause", t2)
              ELSE Mark(print(m, "."), "sleep", "0.2")

\* Mutant: the heartbeat branch pushes the deadline back by the time it sleeps.
CookingState_update_extends(m, t1, t2) ==
    IF m.stop_time[1] <= t1
    THEN go_to_state(m, "IDLE", t2)
    ELSE IF m.event = "Q"
         THEN go_to_state(print(m, "Cancel"), "IDLE", t2)
         ELSE IF m.event = EVENT_PAUSE
              THEN go_to_state([m EXCEPT !.cook_time = m.stop_time[1] - t2], "Pause", t2)
              ELSE [Mark(print(m, "."), "sleep", "0.2") EXCEPT
                       !.stop_time = <<m.stop_time[1] + 1>>]

\* Mutant: the deadline check is missing; only the keys end a cooking.
CookingState_update_no_deadline(m, t1, t2) ==
    IF m.event = "Q"
    THEN go_to_state(print(m, "Cancel"), "IDLE", t2)
    ELSE IF m.event = EVENT_PAUSE
         THEN go_to_state([m EXCEPT !.cook_time = m.stop_time[1] - t2], "Pause", t2)
         ELSE Mark(print(m, "."), "sleep", "0.2")

\* t1 is the clock read by the deadline check, t2 the clock read by the pause branch.
CookingState_update(m, t1, t2) ==
    IF m.stop_time[1] <= t1
    THEN go_to_state(m, "IDLE", t2)
    ELSE IF m.event = "Q"
         THEN go_to_state(print(m, "Cancel"), "IDLE", t2)
         ELSE IF m.event = EVENT_PAUSE
              THEN go_to_state([m EXCEPT !.cook_time = m.stop_time[1] - t2], "Pause", t2)
              ELSE Mark(print(m, "."), "sleep", "0.2")

\* Mutant: update() runs the update of a state it has just entered.
update_again(m, t1, t2) ==
    LET once(x) ==
            IF x.state # None
            THEN CASE x.state = "IdleState" -> IdleState_update(x, t2)
                   [] x.state = "PauseState" -> PauseState_update(x, t2)
                   [] x.state = "CookingState" -> CookingState_update(x, t2, t2)
                   [] OTHER -> x
            ELSE x
        m1 == once(m)
    IN  IF m1.state # m.state THEN once(m1) ELSE m1

\* MicrowaveMachine.update(): t1 is the clock at the first read of this call, t2 the
\* clock at any later read.
update(m, t1, t2) ==
    IF m.state # None
    THEN CASE m.state = "IdleState" -> IdleState_update(m, t2)
           [] m.state = "PauseState" -> PauseState_update(m, t2)
           [] m.state = "CookingState" -> CookingState_update(m, t1, t2)
           [] OTHER -> m
    ELSE m

\* ---------------------------------------------------------------- history

\* The trace tr holds the entry <<kind, what>>.
Called(tr, kind, what) == \E i \in 1..Len(tr) : tr[i] = <<kind, what>>

\* The positions of the entries of the given kind in tr.
Positions(tr, kind) == {i \in 1..Len(tr) : tr[i][1] = kind}

\* The step whose trace is tr ended with an exception.
Raised(tr) == tr # <<>> /\ tr[Len(tr)][1] = "raise"

\* The digit keys and their values, as the keypad shows them.
DigitKeys == {"0", "1", "2", "3", "4", "5", "6", "7", "8", "9"}

DigitValue(c) ==
    CASE c = "0" -> 0 [] c = "1" -> 1 [] c = "2" -> 2 [] c = "3" -> 3 [] c = "4" -> 4
      [] c = "5" -> 5 [] c = "6" -> 6 [] c = "7" -> 7 [] c = "8" -> 8 [] c = "9" -> 9

\* digits after a step with trace tr; fed says whether the step was an update().
NextDigits(tr, fed) ==
    IF Called(tr, "enter", "IDLE") THEN <<>>
    ELSE IF fed /\ state = "IdleState" /\ event \in DigitKeys
         THEN Append(digits, DigitValue(event))
         ELSE digits

\* Within the bounds of the model.
InBounds(m, ds) == m.cook_time <= MaxCook /\ Len(ds) <= MaxDigits

\* ------------------------------------------------------------ main program

InitMachine ==
    /\ state = None
    /\ states = [n \in {} |-> None]
    /\ event = ""
    /\ cook_time = 0
    /\ now = 0
    /\ stop_time = <<>>
    /\ trace = <<>>
    /\ digits = <<>>
    /\ heating = FALSE

Init == InitMachine /\ pc = "add_idle"

\* Time passes.
Tick ==
    /\ now < MaxNow
    /\ now' = now + 1
    /\ trace' = <<>>
    /\ UNCHANGED <<state, states, event, cook_time, stop_time, pc, digits, heating>>

\* microwave.add_state(IdleState()); add_state(CookingState()); add_state(PauseState())
MainAddState ==
    \E cls \in Classes :
        /\ pc = CASE cls = "IdleState" -> "add_idle"
                  [] cls = "CookingState" -> "add_cooking"
                  [] cls = "PauseState" -> "add_pause"
        /\ pc' = CASE cls = "IdleState" -> "add_cooking"
                   [] cls = "CookingState" -> "add_pause"
                   [] cls = "PauseState" -> "reset"
        /\ SetMachine(add_state(Mark(Machine, "call", "add_state"), cls))
        /\ UNCHANGED <<now, digits>>

\* Mutant: the main program enters its loop without the initial go_to_state.
MainReset_forgotten ==
    /\ pc = "reset"
    /\ pc' = "poll"
    /\ trace' = <<>>
    /\ UNCHANGED <<state, states, event, cook_time, stop_time, now, digits, heating>>

\* microwave.go_to_state("IDLE")
MainReset ==
    /\ pc = "reset"
    /\ LET m == go_to_state(Machine, "IDLE", now) IN
       /\ SetMachine(m)
       /\ digits' = NextDigits(m.trace, FALSE)
       /\ pc' = IF Raised(m.trace) THEN "crashed" ELSE "poll"
    /\ UNCHANGED now

\* microwave.event = get_event()
MainPoll ==
    /\ pc = "poll"
    /\ \E kbhit \in BOOLEAN, key \in Keys :
          SetMachine(get_event(Mark(Machine, "call", "get_event"), kbhit, key))
    /\ pc' = "update"
    /\ UNCHANGED <<now, digits>>

\* One call of update(), during which the clock advances by d.
Update(d) ==
    LET m == update(Mark(Machine, "call", "update"), now, now + d)
        ds == NextDigits(m.trace, TRUE)
    IN  /\ now + d <= MaxNow
        /\ InBounds(m, ds)
        /\ SetMachine(m)
        /\ digits' = ds
        /\ now' = now + d

\* microwave.update()
MainUpdate ==
    /\ pc = "update"
    /\ \E d \in 0..MaxDrift : Update(d)
    /\ pc' = IF Raised(trace') THEN "crashed" ELSE "poll"

\* except KeyboardInterrupt: print("shutdown"); break
MainInterrupt ==
    /\ pc \in {"poll", "update"}
    /\ pc' = "done"
    /\ trace' = <<<<"print", "shutdown">>>>
    /\ UNCHANGED <<state, states, event, cook_time, stop_time, now, digits, heating>>

Next == MainAddState \/ MainReset \/ MainPoll \/ MainUpdate \/ MainInterrupt \/ Tick

Spec == Init /\ [][Next]_vars

\* ------------------------------------------------- the machine under any caller

\* A name no state carries.
UnknownName == "DEFROST"

\* The events a caller assigns to machine.event.
ApiEvents == {"", "1", "2", "S", "P", "Q", "X"}

InitApi == InitMachine /\ pc = "api"

\* machine.add_state(cls())
ApiAddState ==
    /\ pc = "api"
    /\ \E cls \in Classes : SetMachine(add_state(Mark(Machine, "call", "add_state"), cls))
    /\ UNCHANGED <<now, pc, digits>>

\* machine.go_to_state(n), with a registered name or not
ApiGoToState ==
    /\ pc = "api"
    /\ \E n \in {name(cls) : cls \in Classes} \cup {UnknownName} :
          LET m == go_to_state(Machine, n, now) IN
          /\ SetMachine(m)
          /\ digits' = NextDigits(m.trace, FALSE)
    /\ UNCHANGED <<now, pc>>

\* machine.event = e
ApiSetEvent ==
    /\ pc = "api"
    /\ \E e \in ApiEvents : event' = e
    /\ trace' = <<<<"call", "event">>>>
    /\ UNCHANGED <<state, states, cook_time, stop_time, now, pc, digits, heating>>

\* machine.update()
ApiUpdate ==
    /\ pc = "api"
    /\ \E d \in 0..MaxDrift : Update(d)
    /\ UNCHANGED pc

NextApi == ApiAddState \/ ApiGoToState \/ ApiSetEvent \/ ApiUpdate \/ Tick

SpecApi == InitApi /\ [][NextApi]_vars

\* ------------------------------------------- the run loop that is never interrupted

\* The keys delivered in the runs checked for liveness (one digit and the commands).
LiveKeys == {"1", "S", "P", "Q"}

\* microwave.event = get_event(), with a key of LiveKeys or none
LivePoll ==
    /\ pc = "poll"
    /\ \E kbhit \in BOOLEAN, key \in LiveKeys :
          SetMachine(get_event(Mark(Machine, "call", "get_event"), kbhit, key))
    /\ pc' = "update"
    /\ UNCHANGED <<now, digits>>

\* microwave.update(); COOKING is entered only with a deadline the bounded clock reaches
LiveUpdate ==
    /\ MainUpdate
    /\ state' = "CookingState" => stop_time'[1] <= MaxNow

NextLive == MainAddState \/ MainReset \/ LivePoll \/ LiveUpdate \/ Tick

\* The loop keeps polling and updating, and the clock keeps advancing.
SpecLive ==
    /\ Init
    /\ [][NextLive]_vars
    /\ WF_vars(LivePoll)
    /\ WF_vars(LiveUpdate)
    /\ WF_vars(Tick)

\* ---------------------------------------------------------------- claims

\* The step just taken was a call of update().
UpdateStep == trace' # <<>> /\ trace'[1] = <<"call", "update">>

RECURSIVE Pow10(_)
Pow10(k) == IF k = 0 THEN 1 ELSE 10 * Pow10(k - 1)

RECURSIVE PlaceSum(_, _)
PlaceSum(s, i) == IF i > Len(s) THEN 0 ELSE (s[i] * Pow10(Len(s) - i)) + PlaceSum(s, i + 1)

\* The number whose decimal digits are s, most significant first (0 for no digits).
DecimalValue(s) == PlaceSum(s, 1)

\* C1: while the machine stays in IDLE, cook_time is the decimal number formed by the
\* digit events given to update() since IDLE was entered (0 for none); other events
\* given in between do not change it.
DigitsAccumulate == state = "IdleState" => cook_time = DecimalValue(digits)

\* Two digits, then an unrecognised event, have been processed in IDLE.
DigitsAccumulateWitness ==
    /\ state = "IdleState"
    /\ digits = <<1, 2>>
    /\ cook_time = 12
    /\ event = "X"
    /\ trace = <<<<"call", "update">>>>

\* C2: the current state changes only along the edges of the transition table, and the
\* first state is IDLE.
TransitionTable ==
    [][state' # state =>
         \/ state = None /\ name(state') = "IDLE"
         \/ /\ UpdateStep
            /\ \/ name(state) = "IDLE" /\ event = "S" /\ name(state') = "COOKING"
               \/ /\ name(state) = "COOKING"
                  /\ (stop_time[1] <= now \/ event = "Q")
                  /\ name(state') = "IDLE"
               \/ name(state) = "COOKING" /\ event = "P" /\ name(state') = "Pause"
               \/ name(state) = "Pause" /\ event = "S" /\ name(state') = "COOKING"
               \/ name(state) = "Pause" /\ event = "Q" /\ name(state') = "IDLE"]_vars

\* An update() has just moved the machine from COOKING to Pause.
TransitionTableWitness ==
    /\ name(state) = "Pause"
    /\ event = "P"
    /\ Called(trace, "exit", "COOKING")
    /\ Called(trace, "enter", "Pause")

\* C3: right after any step that entered IDLE the machine is in IDLE with cook_time = 0.
IdleEntryResets ==
    Called(trace, "enter", "IDLE") => state = "IdleState" /\ cook_time = 0

\* IDLE has just been entered from Pause, where cook_time held a positive remaining time.
IdleEntryResetsWitness ==
    /\ Called(trace, "exit", "Pause")
    /\ Called(trace, "enter", "IDLE")
    /\ cook_time = 0
    /\ stop_time[1] > now

DeadlineEndsCooking ==
    [][(UpdateStep /\ state = "CookingState" /\ stop_time[1] <= now) =>
          state' = "IdleState"]_vars

\* An update() with the empty event has just ended the cooking.
DeadlineEndsCookingWitness ==
    /\ state = "IdleState"
    /\ event = ""
    /\ Called(trace, "call", "update")
    /\ Called(trace, "exit", "COOKING")
    /\ stop_time[1] <= now

CancelLandsInIdle ==
    [][(/\ UpdateStep
        /\ event = "Q"
        /\ \/ state = "PauseState"
           \/ state = "CookingState" /\ stop_time[1] > now) =>
          state' = "IdleState" /\ cook_time' = 0]_vars

\* A cooking has just been cancelled before its deadline.
CancelLandsInIdleWitness ==
    /\ state = "IdleState"
    /\ cook_time = 0
    /\ event = "Q"
    /\ Called(trace, "print", "Cancel")
    /\ stop_time[1] > now

\* C8: a go_to_state with a name that is not registered fails with the lookup's
\* exception and leaves the current state as it was.
UnknownStateFails ==
    [][\A i \in 1..Len(trace') :
          (trace'[i][1] = "go_to_state" /\ trace'[i][2] \notin DOMAIN states) =>
             /\ trace'[Len(trace')] = <<"raise", "KeyError">>
             /\ state' = state]_vars

\* go_to_state with an unregistered name has just failed while COOKING was current.
UnknownStateFailsWitness ==
    /\ state = "CookingState"
    /\ Called(trace, "go_to_state", UnknownName)
    /\ Raised(trace)

\* C9: a transition runs exit on the old state (not at all when there was none), then
\* assigns the current state, then runs enter on the new state, each exactly once.
ExitBeforeEnter ==
    [][(Positions(trace', "go_to_state") # {} /\ ~Raised(trace')) =>
          LET ex == Positions(trace', "exit")
              as == Positions(trace', "assign")
              en == Positions(trace', "enter")
          IN  /\ Cardinality(as) = 1
              /\ Cardinality(en) = 1
              /\ IF state = None THEN ex = {} ELSE Cardinality(ex) = 1
              /\ \A i \in ex : trace'[i][2] = name(state) /\ \A j \in as : i < j
              /\ \A j \in as : trace'[j][2] = name(state') /\ \A k \in en : j < k
              /\ \A k \in en : trace'[k][2] = name(state')]_vars

\* The transition IDLE -> COOKING has just run, hook by hook.
ExitBeforeEnterWitness ==
    trace = << <<"call", "update">>, <<"go_to_state", "COOKING">>,
               <<"print", "Exiting IDLE">>, <<"exit", "IDLE">>,
               <<"assign", "COOKING">>, <<"print", "Entering COOKING">>,
               <<"enter", "COOKING">>, <<"print", "Start heating">> >>

\* C10: once the main program has made its first go_to_state("IDLE"), the current state
\* is one of the registered state objects, never None.
NeverStateless ==
    pc \in {"poll", "update", "done"} =>
        /\ state \in Classes
        /\ name(state) \in DOMAIN states
        /\ states[name(state)] = state

\* The run loop is polling with Pause current.
NeverStatelessWitness == pc = "poll" /\ state = "PauseState"

\* The events some state reacts to.
Recognised == DigitKeys \cup {"S", "P", "Q"}

\* C11: an update() with the empty event or an unrecognised one changes neither the
\* state nor cook_time in IDLE and in Pause; in COOKING it changes the state only when
\* the deadline has been reached, and otherwise leaves cook_time alone.
UnrecognisedIgnored ==
    [][(UpdateStep /\ event \notin Recognised) =>
          /\ state \in {"IdleState", "PauseState"} =>
                state' = state /\ cook_time' = cook_time
          /\ state = "CookingState" =>
                /\ state' # state => stop_time[1] <= now
                /\ state' = state => cook_time' = cook_time]_vars

\* An update() with an unrecognised key has just run in Pause.
UnrecognisedIgnoredWitness ==
    /\ state = "PauseState"
    /\ event = "X"
    /\ trace = <<<<"call", "update">>>>

\* C12: CookingState.update checks the deadline first: at a clock value >= stop_time
\* the events 'Q' and 'P' lead to IDLE, with cook_time reset and not a remaining time;
\* Pause is entered only before the deadline and only by 'P'.
DeadlineFirst ==
    [][(UpdateStep /\ state = "CookingState") =>
          /\ (stop_time[1] <= now /\ event \in {"Q", "P"}) =>
                state' = "IdleState" /\ cook_time' = 0
          /\ state' = "PauseState" => (stop_time[1] > now /\ event = "P")]_vars

\* The pause key has just arrived at the deadline: the machine is in IDLE.
DeadlineFirstWitness ==
    /\ state = "IdleState"
    /\ event = "P"
    /\ Called(trace, "call", "update")
    /\ Called(trace, "exit", "COOKING")
    /\ stop_time[1] <= now

\* C13: cook_time is never negative.  (Stated as claimed; the pause branch reads the
\* clock again after the deadline check, and the clock may have passed stop_time.)
CookTimeNonNegative == cook_time >= 0

\* C14: from the start in IDLE with the digits entered, the deadline is the clock at the
\* start plus the number entered; update() keeps the machine in COOKING, with cook_time
\* and stop_time as they are, while the clock is below stop_time and the event is
\* neither 'Q' nor 'P'; an update() at or after stop_time ends in IDLE with cook_time 0.
CookingRunsToDeadline ==
    [][UpdateStep =>
          /\ (state = "IdleState" /\ event = "S") =>
                stop_time' = <<now' + DecimalValue(digits)>>
          /\ (state = "CookingState" /\ stop_time[1] > now /\ event \notin {"Q", "P"}) =>
                /\ state' = "CookingState"
                /\ cook_time' = cook_time
                /\ stop_time' = stop_time
          /\ (state = "CookingState" /\ stop_time[1] <= now) =>
                state' = "IdleState" /\ cook_time' = 0]_vars

\* A cooking has just run to its deadline with no event.
CookingRunsToDeadlineWitness ==
    /\ state = "IdleState"
    /\ cook_time = 0
    /\ event = ""
    /\ Called(trace, "call", "update")
    /\ Called(trace, "exit", "COOKING")
    /\ stop_time[1] = now
    /\ now > 0

\* C15: stop_time is assigned by CookingState.enter alone: a step that changes it has
\* entered COOKING, and a step that entered COOKING set it to the clock plus cook_time.
DeadlineSetOnEntryOnly ==
    [][/\ stop_time' # stop_time => Called(trace', "enter", "COOKING")
       /\ Called(trace', "enter", "COOKING") => stop_time' = <<now' + cook_time'>>]_vars

\* A heartbeat update() has just run in COOKING with the clock past the entry.
DeadlineSetOnEntryOnlyWitness ==
    /\ state = "CookingState"
    /\ Called(trace, "sleep", "0.2")
    /\ stop_time[1] > now
    /\ stop_time[1] < now + cook_time

\* C16: a go_to_state with an unregistered name runs no exit hook and no enter hook,
\* writes nothing, and leaves cook_time and stop_time unchanged.  (Stated as claimed;
\* the code calls the exit hook of the current state before it looks the name up.)
UnknownStateAbortsWhole ==
    [][(\E i \in 1..Len(trace') :
           trace'[i][1] = "go_to_state" /\ trace'[i][2] \notin DOMAIN states) =>
          /\ Positions(trace', "exit") = {}
          /\ Positions(trace', "enter") = {}
          /\ Positions(trace', "print") = {}
          /\ state' = state
          /\ cook_time' = cook_time
          /\ stop_time' = stop_time]_vars

\* C17: one call of update() makes at most one go_to_state, so at most one exit and one
\* enter, and the state it entered is not updated in the same call: after it the
\* current state is the one entered.
OneTransitionPerUpdate ==
    [][UpdateStep =>
          /\ Cardinality(Positions(trace', "go_to_state")) <= 1
          /\ Cardinality(Positions(trace', "exit")) <= 1
          /\ Cardinality(Positions(trace', "enter")) <= 1
          /\ \A i \in Positions(trace', "enter") :
                /\ name(state') = trace'[i][2]
                /\ \A j \in Positions(trace', "print") :
                      j > i => trace'[j][2] \in {"Start heating", "Paused"}]_vars

\* An update() has just entered COOKING with the deadline already reached, and the
\* machine is still in COOKING.
OneTransitionPerUpdateWitness ==
    /\ state = "CookingState"
    /\ Called(trace, "call", "update")
    /\ Called(trace, "enter", "COOKING")
    /\ stop_time[1] <= now

\* The heating lines of trace tr alternate, given that the heater was h before them.
RECURSIVE Alternates(_, _)
Alternates(h, tr) ==
    IF tr = <<>> THEN TRUE
    ELSE CASE Head(tr) = <<"print", "Start heating">> -> ~h /\ Alternates(TRUE, Tail(tr))
           [] Head(tr) = <<"print", "Stop heating">> -> h /\ Alternates(FALSE, Tail(tr))
           [] OTHER -> Alternates(h, Tail(tr))

\* C18: over a run of the main program "Start heating" and "Stop heating" alternate,
\* starting with "Start heating", and after every step the heater is reported on
\* exactly when the current state is COOKING.
HeatingAlternates ==
    [][/\ Alternates(heating, trace')
       /\ heating' <=> (state' = "CookingState")]_vars

\* COOKING has just been left by the pause key and the heater is reported off.
HeatingAlternatesWitness ==
    /\ state = "PauseState"
    /\ ~heating
    /\ Called(trace, "print", "Stop heating")

\* C19: whenever Pause is entered, the cook_time stored is strictly positive and not
\* greater than the cook_time COOKING was entered with.  (Stated as claimed; the clock
\* read of the pause branch may have reached or passed stop_time.)
PauseStoresPositiveRemaining ==
    [][(UpdateStep /\ state = "CookingState" /\ state' = "PauseState") =>
          cook_time' > 0 /\ cook_time' <= cook_time]_vars

\* The most update() calls considered to reach a state again.
MaxSteps == 4

\* The machine m after one update() with event e at the present clock.
StepWith(m, e) == update([m EXCEPT !.event = e, !.trace = <<>>], now, now)

\* The machines reachable from those of S in at most k update() calls.
RECURSIVE ReachSet(_, _)
ReachSet(S, k) ==
    IF k = 0 THEN S
    ELSE ReachSet(S \cup {[StepWith(m, e) EXCEPT !.trace = <<>>] :
                             m \in S, e \in LiveKeys \cup {""}}, k - 1)

\* Some sequence of at most MaxSteps events makes the machine enter the state of class cls.
CanEnter(cls) ==
    \E m \in ReachSet({Machine}, MaxSteps - 1), e \in LiveKeys \cup {""} :
        Called(StepWith(m, e).trace, "enter", name(cls))

\* C20: while the loop keeps calling update() and the clock keeps advancing, every visit
\* to COOKING ends in IDLE or Pause, and in IDLE unless the pause key is received; and
\* from every state of the run loop some sequence of events leads into each of IDLE,
\* COOKING and Pause again.
CookingEnds ==
    /\ (state = "CookingState") ~> (state \in {"IdleState", "PauseState"})
    /\ (state = "CookingState") ~> (state = "IdleState" \/ event = "P")
    /\ [](pc \in {"poll", "update"} => \A cls \in Classes : CanEnter(cls))

\* A cooking with time left has just ended at its deadline, with no key pressed since
\* the start.
CookingEndsWitness ==
    /\ state = "IdleState"
    /\ event = ""
    /\ Called(trace, "call", "update")
    /\ Called(trace, "exit", "COOKING")
    /\ stop_time[1] = now
    /\ now > 0
    /\ pc = "poll"
    /\ heating = FALSE

====
